---- MODULE Spec2Model ----
(***************************************************************************)
(* QKD post-processing: the Classical Channel (in-process oracle, gRPC     *)
(* client, verifier server), the Cascade passes of qkd/cascade.py and the  *)
(* pipeline drivers (streaming controller, single-file driver, remote      *)
(* corrector client).                                                      *)
(***************************************************************************)
EXTENDS Integers, Sequences, FiniteSets, TLC

VARIABLES
    \* ---- Classical Channel -------------------------------------------
    alice_key,            \* the verifier's Key (Key.bits), a sequence of bits
    impl,                 \* impl[c]: class of corrector c's channel object
    bits_leaked,          \* bits_leaked[c]: the channel object's bits_leaked
    total_parities_sent,  \* AliceCascadeService.total_parities_sent
    rpc,                  \* rpc[c]: the RPC of client c being served
    last,                 \* last[c]: the last channel call of corrector c that ended
    phase,                \* phase[c]: "new", "started" or "ended" (history)
    queries,              \* queries[c]: parities computed for corrector c (history)
    session_blocks,       \* session_blocks[c]: blocks answered since c's own start (history)
    \* ---- cascade_error_protocol (qkd/cascade.py) ------------------------
    casc,                 \* the call's arguments, locals and position
    \* ---- pipeline drivers ---------------------------------------------
    pipe,                 \* the driver's locals and position
    \* ---- one corrector run over both channel classes ------------------
    mirror,               \* the call made on the in-process channel that the
                          \* remote channel makes next (history)
    \* ---- parameter_estimation ------------------------------------------
    pe,                   \* the call's arguments, sample and results
    \* ---- toeplitz_hash -------------------------------------------------
    th,                   \* the arguments and results of two parties' calls
    \* ---- binary_search_error (qkd/cascade.py) --------------------------
    bs,                   \* the call's arguments and result
    \* ---- cascade_iteration (qkd/cascade.py) ----------------------------
    iter,                 \* the call's arguments, locals and results
    \* ---- alice_server.py and bob_client.py, up to the estimation -------
    dep                   \* the two processes' generators, samples and keys

chanVars == <<alice_key, impl, bits_leaked, total_parities_sent, rpc, last,
              phase, queries, session_blocks>>

cascVars == <<casc>>

pipeVars == <<pipe>>

mirrorVars == <<mirror>>

peVars == <<pe>>

thVars == <<th>>

bsVars == <<bs>>

iterVars == <<iter>>

depVars == <<dep>>

vars == <<chanVars, cascVars, pipeVars, mirrorVars, peVars, thVars, bsVars,
          iterVars, depVars>>

\* what the channel's actions, the cascade's and the drivers' leave alone
nonChanVars == <<cascVars, pipeVars, mirrorVars, peVars, thVars,
    bsVars, iterVars, depVars>>
nonCascVars == <<chanVars, pipeVars, mirrorVars, peVars, thVars,
    bsVars, iterVars, depVars>>
nonPipeVars == <<chanVars, cascVars, mirrorVars, peVars, thVars,
    bsVars, iterVars, depVars>>
nonChanMirrorVars == <<cascVars, pipeVars, peVars, thVars,
    bsVars, iterVars, depVars>>
nonPeVars == <<chanVars, cascVars, pipeVars, mirrorVars, thVars,
    bsVars, iterVars, depVars>>
nonThVars == <<chanVars, cascVars, pipeVars, mirrorVars, peVars,
    bsVars, iterVars, depVars>>
nonBsVars == <<chanVars, cascVars, pipeVars, mirrorVars, peVars, thVars,
    iterVars, depVars>>
nonIterVars == <<chanVars, cascVars, pipeVars, mirrorVars, peVars, thVars,
    bsVars, depVars>>
nonDepVars == <<chanVars, cascVars, pipeVars, mirrorVars, peVars, thVars,
    bsVars, iterVars>>

(***************************************************************************)
(* Bounds                                                                  *)
(***************************************************************************)
KeyLen == 2         \* length of the verifier's key in the channel model
MaxBlocks == 2      \* blocks in one ask_parities request
MaxLeak == 3        \* cap of every leakage counter
MaxN == 5           \* longest key handed to cascade_error_protocol
MaxKey == 4         \* longest key of a call of binary_search_error or of
                    \* cascade_iteration on its own
MaxIter == 2        \* largest pass budget (iterations)
MaxChunks == 2      \* chunks read from the file by the streaming driver
MaxPipeLeak == 3    \* parities asked in one reconciliation of a driver
MaxErrors == 1      \* errors left by one reconciliation of a driver
MaxSifted == 3      \* longest key handed to parameter_estimation
MaxHashKey == 2     \* longest key handed to toeplitz_hash
MaxOut == 2         \* largest output_length of toeplitz_hash
DepLen == 10        \* longest sifted key of the two-process deployment

Clients == {1, 2}
Bits == {0, 1}

(***************************************************************************)
(* Shuffles and blocks.  qkd/cascade_open_source (Shuffle, Block) is not   *)
(* part of the sources at hand: a shuffle is a bijection of the key        *)
(* indices rebuilt from its identifier, the parity of a block is the sum   *)
(* modulo 2 of the key bits at the shuffled indices of [start, end), and a *)
(* malformed range fails with InvalidRange.                                *)
(***************************************************************************)
ShuffleIds == {0, 12}

Permutation(id, n) ==
    [i \in 0..(n - 1) |-> IF id = 0 THEN i ELSE n - 1 - i]

WellFormed(b, n) ==
    /\ b.start_index < b.end_index
    /\ 0 <= b.start_index
    /\ b.end_index <= n

CalculateParity(key, id, start, end) ==
    LET perm == Permutation(id, Len(key))
    IN  Cardinality({i \in start..(end - 1) : key[perm[i] + 1] = 1}) % 2

\* str(identifier): the decimal digits, most significant first
RECURSIVE IntToStr(_)
IntToStr(n) ==
    IF n < 10 THEN <<n>> ELSE Append(IntToStr(n \div 10), n % 10)

\* int(shuffle_id)
RECURSIVE StrToInt(_)
StrToInt(s) ==
    IF Len(s) = 0 THEN 0
    ELSE 10 * StrToInt(SubSeq(s, 1, Len(s) - 1)) + s[Len(s)]

\* The ranges a corrector sends: the whole key and a part of it; and the
\* malformed ones: empty (start = end) and past the end of the key.
GoodRanges == {<<0, KeyLen>>, <<0, 1>>}
BadRanges == {<<1, 1>>, <<0, KeyLen + 1>>}

Block(id, r) == [shuffle |-> id, start_index |-> r[1], end_index |-> r[2]]

BlockSet ==
    {Block(id, r) : id \in ShuffleIds, r \in GoodRanges}
        \cup {Block(0, r) : r \in BadRanges}

SeqsUpTo(S, n) == UNION {[1..k -> S] : k \in 1..n}

Requests == SeqsUpTo(BlockSet, MaxBlocks)

\* the requests of the concurrent sessions: top-level blocks of pass 0
ServerRequests == SeqsUpTo({Block(0, <<0, KeyLen>>)}, MaxBlocks)

\* number of blocks before the first malformed one
RECURSIVE GoodPrefix(_, _)
GoodPrefix(blocks, n) ==
    IF Len(blocks) = 0 \/ ~WellFormed(Head(blocks), n) THEN 0
    ELSE 1 + GoodPrefix(Tail(blocks), n)

Malformed(blocks, n) == \E i \in 1..Len(blocks) : ~WellFormed(blocks[i], n)

(***************************************************************************)
(* History records                                                         *)
(***************************************************************************)
\* last[c]: the call (op, nblocks, malformed, phase_before: the session's
\* phase when it was made), how it ended (outcome, parities, transport: by a
\* transport failure), delta: bits_leaked after it minus bits_leaked before
\* it, srv_delta: for a call the server's handler failed, the same for the
\* server's total_parities_sent, reported: the total EndReconciliation
\* printed.
NoCall ==
    [op |-> "none", nblocks |-> 0, outcome |-> "ok",
     malformed |-> FALSE, transport |-> FALSE, phase_before |-> "new",
     parities |-> <<>>, delta |-> 0, srv_delta |-> 0, reported |-> 0]

\* the corrector is inside a call
Pending == [NoCall EXCEPT !.op = "pending"]

NoRpc ==
    [kind |-> "none", blocks |-> <<>>, parities |-> <<>>, tmp |-> 0,
     pc |-> "idle", srv_before |-> 0]

CallRecord(c, op, blocks, outcome, transport, parities, after, sd, rep) ==
    [op |-> op, nblocks |-> Len(blocks),
     outcome |-> outcome, malformed |-> Malformed(blocks, Len(alice_key)),
     transport |-> transport, phase_before |-> phase[c],
     parities |-> parities, delta |-> after - bits_leaked[c],
     srv_delta |-> sd, reported |-> rep]

\* The order in which a corrector (Reconciliation.reconcile) uses its
\* channel: start comes first, end closes a started session; ask_parities
\* can be called at any time after the first start.
CallAllowed(c, kind) ==
    \/ kind = "start"
    \/ kind = "ask" /\ phase[c] # "new"
    \/ kind = "end" /\ phase[c] = "started"

(***************************************************************************)
(* SimpleClassicalChannel                                                  *)
(***************************************************************************)
\* the loop with the ledger bumped once per call instead of once per block
RECURSIVE SimpleAskLoopOnce(_, _, _, _, _)
SimpleAskLoopOnce(key, blocks, i, leaked, parities) ==
    IF i > Len(blocks)
    THEN [outcome |-> "ok", leaked |-> leaked, parities |-> parities]
    ELSE IF ~WellFormed(blocks[i], Len(key))
    THEN [outcome |-> "InvalidRange", leaked |-> leaked, parities |-> <<>>]
    ELSE SimpleAskLoopOnce(key, blocks, i + 1,
            IF i = 1 THEN leaked + 1 ELSE leaked,
            Append(parities,
                   CalculateParity(key, blocks[i].shuffle,
                                   blocks[i].start_index, blocks[i].end_index)))

\* the loop of ask_parities from block i on
RECURSIVE SimpleAskLoop(_, _, _, _, _)
SimpleAskLoop(key, blocks, i, leaked, parities) ==
    IF i > Len(blocks)
    THEN [outcome |-> "ok", leaked |-> leaked, parities |-> parities]
    ELSE IF ~WellFormed(blocks[i], Len(key))
    THEN [outcome |-> "InvalidRange", leaked |-> leaked, parities |-> <<>>]
    ELSE SimpleAskLoop(key, blocks, i + 1, leaked + 1,
            Append(parities,
                   CalculateParity(key, blocks[i].shuffle,
                                   blocks[i].start_index, blocks[i].end_index)))

SimpleStartReconciliationCall(c) ==
    /\ impl[c] = "simple"
    /\ last' = [last EXCEPT ![c] =
                  CallRecord(c, "start", <<>>, "ok", FALSE, <<>>,
                             bits_leaked[c], 0, 0)]
    /\ phase' = [phase EXCEPT ![c] = "started"]
    /\ session_blocks' = [session_blocks EXCEPT ![c] = 0]
    /\ UNCHANGED <<alice_key, impl, bits_leaked, total_parities_sent, rpc, queries>>

SimpleStartReconciliation(c) ==
    /\ SimpleStartReconciliationCall(c)
    /\ UNCHANGED nonChanVars

SimpleAskParitiesCall(c, blocks) ==
    /\ impl[c] = "simple"
    /\ CallAllowed(c, "ask")
    /\ bits_leaked[c] + Len(blocks) <= MaxLeak
    /\ LET r == SimpleAskLoop(alice_key, blocks, 1, bits_leaked[c], <<>>)
           k == GoodPrefix(blocks, Len(alice_key))
       IN  /\ bits_leaked' = [bits_leaked EXCEPT ![c] = r.leaked]
           /\ last' = [last EXCEPT ![c] =
                         CallRecord(c, "ask", blocks, r.outcome, FALSE,
                                    r.parities, r.leaked, 0, 0)]
           /\ queries' = [queries EXCEPT ![c] = @ + k]
           /\ session_blocks' = [session_blocks EXCEPT ![c] =
                                   IF r.outcome = "ok" THEN @ + Len(blocks) ELSE @]
    /\ UNCHANGED <<alice_key, impl, total_parities_sent, rpc, phase>>

SimpleAskParities(c, blocks) ==
    /\ SimpleAskParitiesCall(c, blocks)
    /\ UNCHANGED nonChanVars

SimpleEndReconciliationCall(c) ==
    /\ impl[c] = "simple"
    /\ CallAllowed(c, "end")
    /\ last' = [last EXCEPT ![c] =
                  CallRecord(c, "end", <<>>, "ok", FALSE, <<>>,
                             bits_leaked[c], 0, 0)]
    /\ phase' = [phase EXCEPT ![c] = "ended"]
    /\ UNCHANGED <<alice_key, impl, bits_leaked, total_parities_sent, rpc,
                   queries, session_blocks>>

SimpleEndReconciliation(c) ==
    /\ SimpleEndReconciliationCall(c)
    /\ UNCHANGED nonChanVars

(***************************************************************************)
(* gRPCClassicalChannel: the client side of a call                         *)
(***************************************************************************)
\* BlockInfo(shuffle_id=str(identifier), start_index, end_index)
BlockInfo(b) ==
    [shuffle_id |-> IntToStr(b.shuffle), start_index |-> b.start_index,
     end_index |-> b.end_index]

\* what the except clause of each method leaves the caller with
OnRpcError(kind) == IF kind = "end" THEN "ok" ELSE "RpcError"

\* the ledger bumped once per response instead of once per parity
GrpcLeakedAfterOne(leaked, parities) == leaked + 1

\* bits_leaked after a ParityResponse
GrpcLeakedAfter(leaked, parities) == leaked + Len(parities)

\* the stub call reaches the server
GrpcStubCall(c, kind, blocks) ==
    /\ impl[c] = "grpc"
    /\ rpc[c].kind = "none"
    /\ CallAllowed(c, kind)
    /\ kind = "ask" => /\ Len(blocks) >= 1
                       /\ bits_leaked[c] + Len(blocks) <= MaxLeak
                       /\ total_parities_sent + Len(blocks) <= MaxLeak
    /\ kind # "ask" => blocks = <<>>
    /\ rpc' = [rpc EXCEPT ![c] =
                 [kind |-> kind,
                  blocks |-> [i \in 1..Len(blocks) |-> BlockInfo(blocks[i])],
                  parities |-> <<>>, tmp |-> 0, pc |-> "loop",
                  srv_before |-> total_parities_sent]]
    /\ last' = [last EXCEPT ![c] = Pending]
    /\ UNCHANGED <<alice_key, impl, bits_leaked, total_parities_sent,
                   phase, queries, session_blocks>>

GrpcCall(c, kind, blocks) ==
    /\ GrpcStubCall(c, kind, blocks)
    /\ UNCHANGED nonChanVars

\* the stub call raises grpc.RpcError: the peer cannot be reached
GrpcUnavailable(c, kind, blocks) ==
    /\ impl[c] = "grpc"
    /\ UNCHANGED nonChanVars
    /\ rpc[c].kind = "none"
    /\ CallAllowed(c, kind)
    /\ kind = "ask" => Len(blocks) >= 1
    /\ kind # "ask" => blocks = <<>>
    /\ last' = [last EXCEPT ![c] =
                  CallRecord(c, kind, blocks, OnRpcError(kind), TRUE, <<>>,
                             bits_leaked[c], 0, 0)]
    /\ phase' = [phase EXCEPT ![c] = IF kind = "end" THEN "ended" ELSE @]
    /\ UNCHANGED <<alice_key, impl, bits_leaked, total_parities_sent, rpc,
                   queries, session_blocks>>

(***************************************************************************)
(* AliceCascadeService: one worker thread serves rpc[c]; the reply ends    *)
(* the client's call.                                                      *)
(***************************************************************************)
Unwire(bi) ==
    [shuffle |-> StrToInt(bi.shuffle_id), start_index |-> bi.start_index,
     end_index |-> bi.end_index]

Reply(c, outcome, parities, leaked, total) ==
    LET blocks == [i \in 1..Len(rpc[c].blocks) |-> Unwire(rpc[c].blocks[i])]
    IN  /\ last' = [last EXCEPT ![c] =
                      CallRecord(c, rpc[c].kind, blocks, outcome, FALSE, parities,
                                 leaked,
                                 IF outcome = "ok" THEN 0
                                 ELSE total - rpc[c].srv_before,
                                 IF rpc[c].kind = "end"
                                 THEN total_parities_sent ELSE 0)]
        /\ rpc' = [rpc EXCEPT ![c] = NoRpc]

StartReconciliation(c) ==
    /\ rpc[c].kind = "start"
    /\ UNCHANGED nonChanVars
    /\ total_parities_sent' = 0
    /\ Reply(c, "ok", <<>>, bits_leaked[c], 0)
    /\ phase' = [phase EXCEPT ![c] = "started"]
    /\ session_blocks' = [session_blocks EXCEPT ![c] = 0]
    /\ UNCHANGED <<alice_key, impl, bits_leaked, queries>>

\* one turn of the loop up to the read of total_parities_sent; a malformed
\* block ends the handler with an exception, the client's stub raises
AskParitiesBlock(c) ==
    /\ rpc[c].kind = "ask"
    /\ UNCHANGED nonChanVars
    /\ rpc[c].pc = "loop"
    /\ Len(rpc[c].parities) < Len(rpc[c].blocks)
    /\ UNCHANGED <<alice_key, impl, bits_leaked, total_parities_sent, phase,
                   session_blocks>>
    /\ LET b == Unwire(rpc[c].blocks[Len(rpc[c].parities) + 1])
       IN  IF WellFormed(b, Len(alice_key))
           THEN /\ rpc' = [rpc EXCEPT ![c].parities =
                             Append(@, CalculateParity(alice_key, b.shuffle,
                                                       b.start_index, b.end_index)),
                                      ![c].tmp = total_parities_sent,
                                      ![c].pc = "store"]
                /\ UNCHANGED <<last, queries>>
           ELSE /\ Reply(c, OnRpcError("ask"), <<>>, bits_leaked[c],
                         total_parities_sent)
                /\ UNCHANGED queries

\* the write of total_parities_sent += 1
AskParitiesStore(c) ==
    /\ rpc[c].kind = "ask"
    /\ UNCHANGED nonChanVars
    /\ rpc[c].pc = "store"
    /\ total_parities_sent' = rpc[c].tmp + 1
    /\ rpc' = [rpc EXCEPT ![c].pc = "loop"]
    /\ UNCHANGED <<alice_key, impl, bits_leaked, last, phase, queries,
                   session_blocks>>

\* return ParityResponse(parities); the client adds len(parities)
AskParitiesReturn(c) ==
    /\ rpc[c].kind = "ask"
    /\ UNCHANGED nonChanVars
    /\ rpc[c].pc = "loop"
    /\ Len(rpc[c].parities) = Len(rpc[c].blocks)
    /\ UNCHANGED <<alice_key, impl, total_parities_sent, phase>>
    /\ bits_leaked' = [bits_leaked EXCEPT ![c] =
                         GrpcLeakedAfter(@, rpc[c].parities)]
    /\ Reply(c, "ok", rpc[c].parities,
             GrpcLeakedAfter(bits_leaked[c], rpc[c].parities), total_parities_sent)
    /\ queries' = [queries EXCEPT ![c] = @ + Len(rpc[c].blocks)]
    /\ session_blocks' = [session_blocks EXCEPT ![c] = @ + Len(rpc[c].blocks)]

EndReconciliation(c) ==
    /\ rpc[c].kind = "end"
    /\ UNCHANGED nonChanVars
    /\ UNCHANGED <<alice_key, impl, bits_leaked, total_parities_sent, queries,
                   session_blocks>>
    /\ Reply(c, "ok", <<>>, bits_leaked[c], total_parities_sent)
    /\ phase' = [phase EXCEPT ![c] = "ended"]

(***************************************************************************)
(* qkd/cascade.py                                                          *)
(***************************************************************************)
RECURSIVE SumSeq(_)
SumSeq(bits) == IF Len(bits) = 0 THEN 0 ELSE Head(bits) + SumSeq(Tail(bits))

\* parity(bits)
Parity(bits) == SumSeq(bits) % 2

\* a[i:j] of a Python sequence (0-based, clipped at the end)
Slice(a, i, j) == SubSeq(a, i + 1, IF j < Len(a) THEN j ELSE Len(a))

\* the search that answers the block's first index
BinarySearchErrorFirst(alice_block, bob_block, start_index) == start_index

\* the search that answers the index after the block
BinarySearchErrorEnd(alice_block, bob_block, start_index) ==
    start_index + Len(alice_block)

RECURSIVE BinarySearchError(_, _, _)
BinarySearchError(alice_block, bob_block, start_index) ==
    IF Len(alice_block) = 1 THEN start_index
    ELSE LET mid == Len(alice_block) \div 2
         IN  IF Parity(Slice(alice_block, 0, mid)) # Parity(Slice(bob_block, 0, mid))
             THEN BinarySearchError(Slice(alice_block, 0, mid),
                                    Slice(bob_block, 0, mid), start_index)
             ELSE BinarySearchError(Slice(alice_block, mid, Len(alice_block)),
                                    Slice(bob_block, mid, Len(bob_block)),
                                    start_index + mid)

\* the parities of the verifier's block that binary_search_error compares
\* (history: the code keeps no count of them)
RECURSIVE BinarySearchComparisons(_, _)
BinarySearchComparisons(alice_block, bob_block) ==
    IF Len(alice_block) = 1 THEN 0
    ELSE LET mid == Len(alice_block) \div 2
         IN  1 + (IF Parity(Slice(alice_block, 0, mid)) # Parity(Slice(bob_block, 0, mid))
                  THEN BinarySearchComparisons(Slice(alice_block, 0, mid),
                                               Slice(bob_block, 0, mid))
                  ELSE BinarySearchComparisons(Slice(alice_block, mid, Len(alice_block)),
                                               Slice(bob_block, mid, Len(bob_block))))

\* the correction left out
FlipNot(key, index) == key

\* corrected_bob_permuted[error_index] ^= 1
Flip(key, index) == [key EXCEPT ![index + 1] = 1 - @]

\* no block is skipped
SkipsBlockNever(alice_block) == FALSE

\* if len(alice_block) < 2: continue
SkipsBlock(alice_block) == Len(alice_block) < 2

\* key[permutation], permutation a sequence of 0-based indices
Permuted(key, permutation) ==
    [i \in 1..Len(permutation) |-> key[permutation[i] + 1]]

\* corrected_bob = corrected_bob_permuted, whatever the permutation
UnpermutedNot(permuted, permutation) == permuted

\* corrected_bob[permutation] = corrected_bob_permuted
Unpermuted(permuted, permutation) ==
    [k \in 1..Len(permuted) |->
        permuted[CHOOSE i \in 1..Len(permutation) : permutation[i] + 1 = k]]

\* the loop of cascade_iteration from offset i on; acc holds
\* corrected_bob_permuted, leaked_bits, corrected_errors, the number of
\* parities of the verifier's key compared so far and the slices
\* <<start, end>> taken so far (history)
RECURSIVE CascadeBlocks(_, _, _, _, _)
CascadeBlocks(alice_permuted, bob_permuted, block_size, i, acc) ==
    IF i >= Len(alice_permuted) THEN acc
    ELSE LET alice_block == Slice(alice_permuted, i, i + block_size)
             bob_block == Slice(bob_permuted, i, i + block_size)
             seen == Append(acc.blocks, <<i, i + Len(alice_block)>>)
         IN  IF SkipsBlock(alice_block)
             THEN CascadeBlocks(alice_permuted, bob_permuted, block_size,
                                i + block_size, [acc EXCEPT !.blocks = seen])
             ELSE IF Parity(alice_block) # Parity(bob_block)
             THEN CascadeBlocks(alice_permuted, bob_permuted, block_size,
                     i + block_size,
                     [corrected |-> Flip(acc.corrected,
                                         BinarySearchError(alice_block, bob_block, i)),
                      leaked |-> acc.leaked + 1,
                      errors |-> acc.errors + 1,
                      comparisons |-> acc.comparisons + 1
                          + BinarySearchComparisons(alice_block, bob_block),
                      blocks |-> seen])
             ELSE CascadeBlocks(alice_permuted, bob_permuted, block_size,
                     i + block_size,
                     [acc EXCEPT !.leaked = @ + 1, !.comparisons = @ + 1,
                                 !.blocks = seen])

\* permutation: <<>> stands for None; the result also holds the locals
\* alice_permuted, bob_permuted and corrected_bob_permuted
CascadeIteration(a_key, b_key, block_size, permutation) ==
    LET alice_permuted == IF permutation = <<>> THEN a_key
                          ELSE Permuted(a_key, permutation)
        bob_permuted == IF permutation = <<>> THEN b_key
                        ELSE Permuted(b_key, permutation)
        r == CascadeBlocks(alice_permuted, bob_permuted, block_size, 0,
                           [corrected |-> bob_permuted, leaked |-> 0,
                            errors |-> 0, comparisons |-> 0, blocks |-> <<>>])
    IN  [corrected |-> IF permutation = <<>> THEN r.corrected
                       ELSE Unpermuted(r.corrected, permutation),
         leaked |-> r.leaked, errors |-> r.errors,
         comparisons |-> r.comparisons, blocks |-> r.blocks,
         alice_permuted |-> alice_permuted, bob_permuted |-> bob_permuted,
         corrected_permuted |-> r.corrected]

\* corrected_bob_permuted = bob_permuted.copy() with bob_permuted = bob_key
\* (no .copy()) when permutation is None: the flips reach the caller's array
WritesInputWhenNone(permutation) == permutation = <<>>

\* whether corrected_bob_permuted shares memory with bob_key: bob_key.copy()
\* and bob_key[permutation] are new arrays, and so is bob_permuted.copy()
WritesInput(permutation) == FALSE

\* np.sum(alice_key != corrected_bob)
Hamming(a, b) == Cardinality({i \in 1..Len(a) : a[i] # b[i]})

Max(a, b) == IF a >= b THEN a ELSE b
Min(a, b) == IF a <= b THEN a ELSE b

\* max(4, int(0.73 / max(qber, 1e-5))) for qber = q[1] / q[2]; the float
\* quotient 0.73 / 1e-5 is 72999.99999999999
BaseBlockSize(q) ==
    Max(4, IF q[1] * 100000 <= q[2] THEN 72999 ELSE (73 * q[2]) \div (100 * q[1]))

\* the sequences that hold each element of S once
RECURSIVE Orderings(_)
Orderings(S) ==
    IF S = {} THEN {<<>>}
    ELSE UNION {{Append(p, x) : p \in Orderings(S \ {x})} : x \in S}

\* np.random.permutation(n): the sequences that hold each index once
Perms(n) == Orderings(0..(n - 1))

Qbers == {<<0, 1>>, <<1, 100>>, <<11, 100>>, <<1, 5>>}

CascIdle ==
    [pc |-> "idle", alice_key |-> <<>>, bob_key |-> <<>>, qber |-> <<0, 1>>,
     iterations |-> 0, corrected_bob |-> <<>>, total_leaked_bits |-> 0,
     total_errors |-> 0, final_errors |-> 0, base_block_size |-> 0, it |-> 0,
     comparisons |-> 0, passes |-> 0, initial_errors |-> 0,
     bob_after |-> <<>>, aliased |-> FALSE]

\* if final_errors == 0: break, left out
AfterPassNoBreak(final_errors) == "loop"

\* if final_errors == 0: break
AfterPass(final_errors) == IF final_errors = 0 THEN "returned" ELSE "loop"

\* the call, up to the loop
CascadeCall(a, b, q, iters) ==
    /\ casc.pc = "idle"
    /\ UNCHANGED nonCascVars
    /\ casc' = [pc |-> "loop", alice_key |-> a, bob_key |-> b, qber |-> q,
                iterations |-> iters, corrected_bob |-> b,
                total_leaked_bits |-> 0, total_errors |-> 0,
                final_errors |-> Hamming(a, b),
                base_block_size |-> BaseBlockSize(q), it |-> 0,
                comparisons |-> 0, passes |-> 0,
                initial_errors |-> Hamming(a, b),
                \* corrected_bob = bob_key.copy() is a new array
                bob_after |-> b, aliased |-> FALSE]

\* one turn of the loop
CascadePass(permutation) ==
    /\ casc.pc = "loop"
    /\ UNCHANGED nonCascVars
    /\ casc.it < casc.iterations
    /\ (casc.it = 0) = (permutation = <<>>)
    /\ LET n == Len(casc.alice_key)
           block_size == Min(n, casc.base_block_size * (2 ^ casc.it))
       IN  \E r \in {CascadeIteration(casc.alice_key, casc.corrected_bob,
                                      block_size, permutation)} :
           \E errs \in {Hamming(casc.alice_key, r.corrected)} :
           casc' = [casc EXCEPT
                      !.corrected_bob = r.corrected,
                      !.total_leaked_bits = @ + r.leaked,
                      !.total_errors = @ + r.errors,
                      !.final_errors = errs,
                      !.comparisons = @ + r.comparisons,
                      !.passes = @ + 1,
                      !.bob_after = IF casc.aliased /\ WritesInput(permutation)
                                    THEN r.corrected_permuted ELSE @,
                      !.aliased = casc.aliased /\ WritesInput(permutation),
                      !.it = IF AfterPass(errs) = "returned" THEN @ ELSE @ + 1,
                      !.pc = AfterPass(errs)]

\* the loop ends with the budget
CascadeExhausted ==
    /\ casc.pc = "loop"
    /\ UNCHANGED nonCascVars
    /\ casc.it = casc.iterations
    /\ casc' = [casc EXCEPT !.pc = "returned"]

InitCascade == casc = CascIdle

NextCascade ==
    \/ /\ casc.pc = "idle"
       /\ \E n \in 1..MaxN : \E a \in {[i \in 1..n |-> 0], [i \in 1..n |-> i % 2]} :
            \E b \in [1..n -> Bits] : \E q \in Qbers : \E iters \in 0..MaxIter :
               CascadeCall(a, b, q, iters)
    \/ CascadePass(<<>>)
    \/ /\ casc.pc = "loop" /\ casc.it > 0
       /\ \E p \in Perms(Len(casc.alice_key)) : CascadePass(p)
    \/ CascadeExhausted

(***************************************************************************)
(* binary_search_error called on the blocks at offset start_index of two   *)
(* keys of length key_len                                                  *)
(***************************************************************************)
BsIdle ==
    [pc |-> "idle", key_len |-> 0, alice_block |-> <<>>, bob_block |-> <<>>,
     start_index |-> 0, result |-> 0, depth |-> 0,
     alice_after |-> <<>>, bob_after |-> <<>>]

BsCalled(key_len, a, b, start_index) ==
    [BsIdle EXCEPT !.pc = "called", !.key_len = key_len, !.alice_block = a,
                   !.bob_block = b, !.start_index = start_index,
                   !.alice_after = a, !.bob_after = b]

\* the blocks are read only (slices and parity); one nested call is made
\* for every comparison of half-block parities
BinarySearchErrorReturn ==
    /\ bs.pc = "called"
    /\ UNCHANGED nonBsVars
    /\ bs' = [bs EXCEPT
                !.pc = "returned",
                !.result = BinarySearchError(bs.alice_block, bs.bob_block,
                                             bs.start_index),
                !.depth = BinarySearchComparisons(bs.alice_block, bs.bob_block)]

InitBisect == bs = BsIdle

\* blocks of length L >= 1 inside keys of length up to MaxKey
BsInputs ==
    \E s \in 0..(MaxKey - 1) : \E L \in 1..MaxKey : \E n \in (s + L)..MaxKey :
        \E a \in [1..L -> Bits] : \E b \in [1..L -> Bits] :
            bs = BsCalled(n, a, b, s)

(***************************************************************************)
(* cascade_iteration called on its own                                     *)
(***************************************************************************)
IterIdle ==
    [pc |-> "idle", alice_key |-> <<>>, bob_key |-> <<>>, block_size |-> 1,
     permutation |-> <<>>, corrected_bob |-> <<>>, leaked_bits |-> 0,
     corrected_errors |-> 0, blocks |-> <<>>, alice_permuted |-> <<>>,
     bob_permuted |-> <<>>, corrected_bob_permuted |-> <<>>,
     alice_after |-> <<>>, bob_after |-> <<>>, permutation_after |-> <<>>]

IterCalled(a, b, block_size, permutation) ==
    [IterIdle EXCEPT !.pc = "called", !.alice_key = a, !.bob_key = b,
                     !.block_size = block_size, !.permutation = permutation,
                     !.alice_after = a, !.bob_after = b,
                     !.permutation_after = permutation]

CascadeIterationReturn ==
    /\ iter.pc = "called"
    /\ UNCHANGED nonIterVars
    /\ \E r \in {CascadeIteration(iter.alice_key, iter.bob_key,
                                   iter.block_size, iter.permutation)} :
           iter' = [iter EXCEPT
                      !.pc = "returned",
                      !.corrected_bob = r.corrected,
                      !.leaked_bits = r.leaked,
                      !.corrected_errors = r.errors,
                      !.blocks = r.blocks,
                      !.alice_permuted = r.alice_permuted,
                      !.bob_permuted = r.bob_permuted,
                      !.corrected_bob_permuted = r.corrected_permuted,
                      !.bob_after = IF WritesInput(iter.permutation)
                                    THEN r.corrected_permuted ELSE @]

InitIteration == iter = IterIdle

\* keys of length up to MaxKey, any block size, no permutation or any
IterInputs ==
    \E n \in 1..MaxKey :
        \E a \in {[i \in 1..n |-> 0], [i \in 1..n |-> i % 2]} :
            \E b \in [1..n -> Bits] : \E block_size \in 1..MaxKey :
                \E permutation \in {<<>>} \cup Perms(n) :
                    iter = IterCalled(a, b, block_size, permutation)

\* one entry point of qkd/cascade.py is called in a run
NextCascadeCalls ==
    \/ BinarySearchErrorReturn
    \/ CascadeIterationReturn
    \/ (bs.pc = "idle" /\ iter.pc = "idle" /\ NextCascade)

(***************************************************************************)
(* Pipeline drivers: process_large_file.py ("stream"),                     *)
(* small_portion_test.py ("test") and bob_client.py ("bob").               *)
(* Rates are in thousandths (qber_high = 110 is 0.11), entropies in        *)
(* ten-thousandths.  Reconciliation.reconcile (qkd/cascade_open_source) is *)
(* not part of the sources at hand: one run asks some parities over the    *)
(* driver's channel and leaves some number of errors.                      *)
(***************************************************************************)
QBER_THRESHOLD == 110
CHUNK_SIZE == 100000
BATCH_SIZE_THRESHOLD == 50000
safety_margin == 50
SampleRatioInverse == 10        \* SAMPLE_RATIO = 0.1
AlgorithmCount == 7             \* len(algorithms) of the single-file driver
EntropyScale == 10000

Drivers == {"stream", "test", "bob"}

\* len(chunk) of the file's last chunk, when the rows do not fill it
PartialChunks == {30000, 60000}

\* len(alice_bits) after sifting
SiftedSizes == {9, 60, 200}

\* qber_high returned by parameter_estimation
QberHighs == {0, 50, 110, 111, 150}

\* binary_entropy(p) of privacy_amplification.py, rounded down to 1/10000
BinaryEntropy(p) ==
    IF p <= 0 \/ p >= 1000 THEN 0
    ELSE CASE p = 50  -> 2863
           [] p = 110 -> 4999
           [] p = 111 -> 5029
           [] p = 150 -> 6098

\* int(x / EntropyScale): Python's int() drops the fraction, towards zero
IntOf(x) == IF x >= 0 THEN x \div EntropyScale ELSE -((-x) \div EntropyScale)

\* final_len = max(0, int(n - leaked_bits - n * h_qber - safety_margin))
FinalKeyLengthNoLeak(n, leaked_bits, h_qber) ==
    Max(0, IntOf(EntropyScale * (n - safety_margin) - n * h_qber))

FinalKeyLength(n, leaked_bits, h_qber) ==
    Max(0, IntOf(EntropyScale * (n - leaked_bits - safety_margin) - n * h_qber))

\* sample_size = int(len(alice_key) * sample_ratio)
SampleSize(N) == N \div SampleRatioInverse

\* the drivers that compare qber_high with QBER_THRESHOLD before Cascade
GatesQber(driver) == driver \in {"stream", "test"}

\* the drivers that return when final_errors > 0
HaltsOnErrors(driver) == driver \in {"test", "bob"}

\* runs of Reconciliation in one session
Runs(driver) == IF driver = "test" THEN AlgorithmCount ELSE 1

\* the condition under which the driver reaches toeplitz_hash
HashGuardLengthOnly(p) == p.final_len > 0

HashGuardErrorsOnly(p) == p.final_errors = 0

HashGuard(p) ==
    IF p.driver = "stream" THEN p.final_len > 0 /\ p.final_errors = 0
    ELSE p.final_len # 0

\* toeplitz_hash calls of the driver
HashCalls(driver) == IF driver = "bob" THEN 1 ELSE 2

PipeIdle ==
    [driver |-> "none", pc |-> "idle", raw_buffer |-> 0, chunks |-> 0,
     eof |-> FALSE, batch_number |-> 0, N |-> 0, sample_size |-> 0, n |-> 0,
     qber_high |-> 0, algo |-> 0, ledger |-> 0, leaked_bits |-> 0,
     final_errors |-> 0, final_len |-> 0, channel_calls |-> 0,
     hash_calls |-> 0, total_final_keys |-> 0, outcome |-> "none",
     asked |-> 0, total_before |-> 0, total_raw_bits |-> 0, rows_sifted |-> 0]

PipeStart(driver) ==
    [PipeIdle EXCEPT !.driver = driver,
                     !.pc = IF driver = "stream" THEN "read" ELSE "sift"]

\* bits_leaked of the channel object a reconciliation begins with, given
\* the ledger of the one before: SimpleClassicalChannel(alice_key) and
\* gRPCClassicalChannel(server_address) are new objects
ChannelLedgerKept(previous) == previous

ChannelLedger(previous) == 0

\* the end of a batch with raw_buffer left as it is
PipeEndKeepBuffer(p, outcome) ==
    [p EXCEPT !.outcome = outcome,
              !.pc = IF p.driver = "stream" THEN "read" ELSE "done"]

\* the end of a batch (stream: back to the chunk loop) or of the session
PipeEnd(p, outcome) ==
    [p EXCEPT !.outcome = outcome,
              !.raw_buffer = 0,
              !.pc = IF p.driver = "stream" THEN "read" ELSE "done"]

\* for chunk in pd.read_csv(filepath, chunksize=CHUNK_SIZE): the next chunk
\* joins raw_buffer, which is processed once it holds the threshold
ReadChunk(size) ==
    /\ pipe.driver = "stream" /\ pipe.pc = "read"
    /\ ~pipe.eof /\ pipe.chunks < MaxChunks
    /\ UNCHANGED nonPipeVars
    /\ LET buffered == pipe.raw_buffer + size
           batch == buffered >= BATCH_SIZE_THRESHOLD
       IN  pipe' = [pipe EXCEPT
                      !.chunks = @ + 1,
                      !.total_raw_bits = @ + size,
                      !.rows_sifted = IF batch THEN @ + buffered ELSE @,
                      !.eof = size < CHUNK_SIZE,
                      !.raw_buffer = buffered,
                      !.batch_number = IF batch THEN @ + 1 ELSE @,
                      !.pc = IF batch THEN "sift" ELSE "read"]

\* the chunk loop ends with the file
EndOfFile ==
    /\ pipe.driver = "stream" /\ pipe.pc = "read"
    /\ UNCHANGED nonPipeVars
    /\ pipe' = [pipe EXCEPT !.pc = "done"]

\* sifting(raw_buffer), sifting(df), sifting_chunked(data_file): a new
\* batch or session begins, no channel made and nothing hashed yet
Sift(N) ==
    /\ pipe.pc = "sift"
    /\ UNCHANGED nonPipeVars
    /\ pipe' = [pipe EXCEPT
                  !.N = N, !.pc = "estimate", !.algo = 0, !.ledger = 0,
                  !.channel_calls = 0, !.hash_calls = 0, !.outcome = "none",
                  !.total_before = pipe.total_final_keys]

\* parameter_estimation(alice_bits, bob_bits)
Estimate(qber_high) ==
    /\ pipe.pc = "estimate"
    /\ UNCHANGED nonPipeVars
    /\ pipe' = [pipe EXCEPT
                  !.sample_size = SampleSize(pipe.N),
                  !.n = pipe.N - SampleSize(pipe.N),
                  !.qber_high = qber_high,
                  !.pc = "gate"]

\* if qber_high > QBER_THRESHOLD: abort (a comment in bob_client.py)
QberGate ==
    /\ pipe.pc = "gate"
    /\ UNCHANGED nonPipeVars
    /\ pipe' = IF GatesQber(pipe.driver) /\ pipe.qber_high > QBER_THRESHOLD
               THEN PipeEnd(pipe, "QberTooHigh")
               ELSE [pipe EXCEPT !.pc = "reconcile"]

\* cascade_opensource(...), or bob_client's Reconciliation(...).reconcile()
\* over its gRPCClassicalChannel: a new channel object (bits_leaked = 0),
\* start_reconciliation, k parities asked, end_reconciliation;
\* leaked_bits = channel.bits_leaked, final_errors = np.sum(alice != corrected)
Reconcile(k, errors) ==
    /\ pipe.pc = "reconcile"
    /\ UNCHANGED nonPipeVars
    /\ pipe' = [pipe EXCEPT
                  !.ledger = ChannelLedger(pipe.leaked_bits) + k,
                  !.leaked_bits = ChannelLedger(pipe.leaked_bits) + k,
                  !.asked = k,
                  !.final_errors = errors,
                  !.channel_calls = @ + 1,
                  !.algo = @ + 1,
                  !.pc = IF pipe.algo + 1 = Runs(pipe.driver)
                         THEN "errors" ELSE "reconcile"]

\* bob_client: gRPCClassicalChannel(server_address) raises, the driver
\* prints the error and returns
ConnectFails ==
    /\ pipe.driver = "bob" /\ pipe.pc = "reconcile"
    /\ UNCHANGED nonPipeVars
    /\ pipe' = [pipe EXCEPT !.outcome = "NoConnection", !.pc = "done"]

\* bob_client: grpc.RpcError raised by start_reconciliation or ask_parities
\* leaves reconcile() and run_bob_client
ReconcileFails(k) ==
    /\ pipe.driver = "bob" /\ pipe.pc = "reconcile"
    /\ UNCHANGED nonPipeVars
    /\ pipe' = [pipe EXCEPT
                  !.ledger = ChannelLedger(pipe.leaked_bits) + k,
                  !.channel_calls = @ + 1,
                  !.outcome = "RpcError",
                  !.pc = "done"]

\* if final_errors > 0: return (a warning only in process_large_file.py)
ErrorsGate ==
    /\ pipe.pc = "errors"
    /\ UNCHANGED nonPipeVars
    /\ pipe' = IF HaltsOnErrors(pipe.driver) /\ pipe.final_errors > 0
               THEN PipeEnd(pipe, "ResidualErrors")
               ELSE [pipe EXCEPT !.pc = "length"]

\* h_qber = binary_entropy(qber_high); n = len(key); final length
ComputeLength ==
    /\ pipe.pc = "length"
    /\ UNCHANGED nonPipeVars
    /\ pipe' = [pipe EXCEPT
                  !.final_len = FinalKeyLength(pipe.n, pipe.leaked_bits,
                                               BinaryEntropy(pipe.qber_high)),
                  !.pc = "amplify"]

\* toeplitz_hash under the driver's guard; the streaming driver adds
\* final_len to total_final_keys (equal keys hash to equal keys under the
\* one seed) and clears raw_buffer either way
Amplify ==
    /\ pipe.pc = "amplify"
    /\ UNCHANGED nonPipeVars
    /\ pipe' = IF HashGuard(pipe)
               THEN [PipeEnd(pipe, "Key") EXCEPT
                       !.hash_calls = @ + HashCalls(pipe.driver),
                       !.total_final_keys =
                           IF pipe.driver = "stream" THEN @ + pipe.final_len
                           ELSE @]
               ELSE PipeEnd(pipe, IF pipe.final_errors > 0
                                  THEN "ResidualErrors" ELSE "NoKey")

InitPipeIdle == pipe = PipeIdle

NextPipeline ==
    \/ ReadChunk(CHUNK_SIZE)
    \/ \E size \in PartialChunks : ReadChunk(size)
    \/ EndOfFile
    \/ \E N \in SiftedSizes : Sift(N)
    \/ \E q \in QberHighs : Estimate(q)
    \/ QberGate
    \/ \E k \in 1..MaxPipeLeak : \E e \in 0..MaxErrors : Reconcile(k, e)
    \/ ConnectFails
    \/ \E k \in 0..MaxPipeLeak : ReconcileFails(k)
    \/ ErrorsGate
    \/ ComputeLength
    \/ Amplify

(***************************************************************************)
(* One corrector run over both channel classes: every call is made on the  *)
(* SimpleClassicalChannel of corrector 1, then on the gRPCClassicalChannel *)
(* of corrector 2, whose server holds the same key.                        *)
(***************************************************************************)
NoMirror == [stage |-> "idle", kind |-> "none", blocks |-> <<>>]

\* requests whose blocks are all well-formed
GoodRequests ==
    SeqsUpTo({Block(id, r) : id \in ShuffleIds, r \in GoodRanges}, MaxBlocks)

\* both channels have finished the calls made so far
Synced == mirror.stage = "idle" /\ rpc[2].kind = "none"

MirrorStart ==
    /\ Synced
    /\ SimpleStartReconciliationCall(1)
    /\ mirror' = [stage |-> "remote", kind |-> "start", blocks |-> <<>>]
    /\ UNCHANGED nonChanMirrorVars

MirrorAsk(blocks) ==
    /\ Synced
    /\ SimpleAskParitiesCall(1, blocks)
    /\ mirror' = [stage |-> "remote", kind |-> "ask", blocks |-> blocks]
    /\ UNCHANGED nonChanMirrorVars

MirrorEnd ==
    /\ Synced
    /\ SimpleEndReconciliationCall(1)
    /\ mirror' = [stage |-> "remote", kind |-> "end", blocks |-> <<>>]
    /\ UNCHANGED nonChanMirrorVars

\* the same call on the remote channel
MirrorRemote ==
    /\ mirror.stage = "remote"
    /\ GrpcStubCall(2, mirror.kind, mirror.blocks)
    /\ mirror' = [mirror EXCEPT !.stage = "idle"]
    /\ UNCHANGED nonChanMirrorVars

InitMirror == mirror = NoMirror

NextMirror ==
    \/ MirrorStart
    \/ \E blocks \in GoodRequests : MirrorAsk(blocks)
    \/ MirrorEnd
    \/ MirrorRemote
    \/ StartReconciliation(2)
    \/ AskParitiesBlock(2)
    \/ AskParitiesStore(2)
    \/ AskParitiesReturn(2)
    \/ EndReconciliation(2)

(***************************************************************************)
(* parameter_estimation (qkd/parameter_estimation.py, and the list version *)
(* of bb84.py).  Rates are in thousandths, rounded down; a sample ratio is *)
(* the pair <<numerator, denominator>>; indices are 0-based.               *)
(***************************************************************************)
CONFIDENCE_Z == 3
Milli == 1000

Modules == {"qkd", "bb84"}

\* sample_ratio
Ratios == {<<1, 10>>, <<1, 2>>, <<2, 3>>, <<1, 1>>}

\* math.sqrt, rounded down
ISqrt(x) == CHOOSE d \in 0..(2 * Milli) : d * d <= x /\ x < (d + 1) * (d + 1)

\* qber_confidence_interval(qber, n): <<lower, upper>>
QberConfidenceInterval(errors, n) ==
    IF n = 0 THEN <<0, 0>>
    ELSE LET qber == (Milli * errors) \div n
             delta == ISqrt((CONFIDENCE_Z * CONFIDENCE_Z * Milli * Milli
                               * errors * (n - errors)) \div (n * n * n))
         IN  <<Max(0, qber - delta), Min(Milli, qber + delta)>>

\* sample_size = int(len(alice_bits) * sample_ratio)
SampleSizeOf(N, ratio) == (N * ratio[1]) \div ratio[2]

\* np.random.choice(N, sample_size, replace=False), random.sample(range(N),
\* sample_size): sample_size distinct indices
Samples(N, size) == {idx \in SUBSET (0..(N - 1)) : Cardinality(idx) = size}

\* np.sum(alice_bits[sample_idx] != bob_bits[sample_idx])
SampleErrors(a, b, idx) == Cardinality({i \in idx : a[i + 1] # b[i + 1]})

\* errors / sample_size: numpy's 0 / 0 is nan (a warning, no exception);
\* bb84.py has `if sample_size > 0 else 0`
QberIsNan(module, sample_size) == module = "qkd" /\ sample_size = 0

QberOf(errors, sample_size) ==
    IF sample_size = 0 THEN 0 ELSE (Milli * errors) \div sample_size

\* bits[mask] with mask[sample_idx] = False, every index kept
RECURSIVE MaskedAll(_, _, _)
MaskedAll(bits, idx, i) ==
    IF i >= Len(bits) THEN <<>>
    ELSE <<bits[i + 1]>> \o MaskedAll(bits, idx, i + 1)

\* bits[mask] with mask[sample_idx] = False, from index i on
RECURSIVE Masked(_, _, _)
Masked(bits, idx, i) ==
    IF i >= Len(bits) THEN <<>>
    ELSE (IF i \in idx THEN <<>> ELSE <<bits[i + 1]>>) \o Masked(bits, idx, i + 1)

\* del key[index]
DelAt(key, index) ==
    [j \in 1..(Len(key) - 1) |-> IF j <= index THEN key[j] ELSE key[j + 1]]

SetMax(S) == CHOOSE x \in S : \A y \in S : y <= x

\* for index in sorted(sample_indices, reverse=True): del key[index]
RECURSIVE DelSorted(_, _)
DelSorted(key, idx) ==
    IF idx = {} THEN key
    ELSE DelSorted(DelAt(key, SetMax(idx)), idx \ {SetMax(idx)})

PeIdle ==
    [pc |-> "idle", module |-> "none", alice_bits |-> <<>>, bob_bits |-> <<>>,
     ratio |-> <<1, 1>>, sample_idx |-> {}, sample_size |-> 0, qber |-> 0,
     qber_nan |-> FALSE, qber_low |-> 0, qber_high |-> 0,
     a_key |-> <<>>, b_key |-> <<>>, alice_after |-> <<>>, bob_after |-> <<>>]

PeCalled(module, a, b, ratio) ==
    [PeIdle EXCEPT !.pc = "called", !.module = module, !.alice_bits = a,
                   !.bob_bits = b, !.ratio = ratio,
                   !.alice_after = a, !.bob_after = b]

\* parameter_estimation(alice_bits, bob_bits, sample_ratio) of
\* qkd/parameter_estimation.py: the keys come back as new arrays
ParameterEstimation(idx) ==
    /\ pe.pc = "called" /\ pe.module = "qkd"
    /\ UNCHANGED nonPeVars
    /\ LET size == SampleSizeOf(Len(pe.alice_bits), pe.ratio)
           errors == SampleErrors(pe.alice_bits, pe.bob_bits, idx)
           ci == QberConfidenceInterval(errors, size)
       IN  /\ idx \in Samples(Len(pe.alice_bits), size)
           /\ pe' = [pe EXCEPT
                       !.pc = "returned",
                       !.sample_idx = idx,
                       !.sample_size = size,
                       !.qber = QberOf(errors, size),
                       !.qber_nan = QberIsNan("qkd", size),
                       !.qber_low = ci[1],
                       !.qber_high = ci[2],
                       !.a_key = Masked(pe.alice_bits, idx, 0),
                       !.b_key = Masked(pe.bob_bits, idx, 0)]

\* parameter_estimation(sifted_key_alice, sifted_key_bob, sample_ratio) of
\* bb84.py: the sampled entries are deleted from the lists passed in, which
\* are the lists returned
ParameterEstimationLists(idx) ==
    /\ pe.pc = "called" /\ pe.module = "bb84"
    /\ UNCHANGED nonPeVars
    /\ LET size == SampleSizeOf(Len(pe.alice_bits), pe.ratio)
           errors == SampleErrors(pe.alice_bits, pe.bob_bits, idx)
       IN  /\ idx \in Samples(Len(pe.alice_bits), size)
           /\ pe' = [pe EXCEPT
                       !.pc = "returned",
                       !.sample_idx = idx,
                       !.sample_size = size,
                       !.qber = QberOf(errors, size),
                       !.qber_nan = QberIsNan("bb84", size),
                       !.a_key = DelSorted(pe.alice_bits, idx),
                       !.b_key = DelSorted(pe.bob_bits, idx),
                       !.alice_after = DelSorted(pe.alice_bits, idx),
                       !.bob_after = DelSorted(pe.bob_bits, idx)]

InitPeIdle == pe = PeIdle

NextEstimation ==
    \/ \E idx \in SUBSET (0..(MaxSifted - 1)) : ParameterEstimation(idx)
    \/ \E idx \in SUBSET (0..(MaxSifted - 1)) : ParameterEstimationLists(idx)

(***************************************************************************)
(* toeplitz_hash (qkd/privacy_amplification.py): a first call, then the    *)
(* peer's call with the seed the first one returned.                       *)
(***************************************************************************)
\* seed[i:i+n] & key, i counted from 0
Window(key, seed, i) ==
    [j \in 1..Len(key) |-> IF seed[i + j] = 1 /\ key[j] = 1 THEN 1 ELSE 0]

\* the hash with the one window seed[0:n] for every output bit
ToeplitzBitsUnshifted(key, output_length, seed) ==
    [i \in 1..output_length |-> SumSeq(Window(key, seed, 0)) % 2]

\* hashed_key[i] = np.sum(seed[i:i + n] & key) % 2 for i in range(output_length)
ToeplitzBits(key, output_length, seed) ==
    [i \in 1..output_length |-> SumSeq(Window(key, seed, i - 1)) % 2]

\* the seed drawn whether or not one was supplied
SeedAlwaysDrawn(seed, given, drawn) == drawn

\* if seed is None: seed = np.random.randint(0, 2, n + output_length - 1)
SeedUsed(seed, given, drawn) == IF given THEN seed ELSE drawn

\* the seeds of length n + output_length - 1
Seeds(n, output_length) ==
    IF n + output_length >= 1 THEN [1..(n + output_length - 1) -> Bits] ELSE {}

ThIdle ==
    [pc |-> "idle", key |-> <<>>, output_length |-> 0, given |-> FALSE,
     seed_arg |-> <<>>, seed |-> <<>>, hashed_key |-> <<>>,
     returned_seed |-> <<>>, key_after |-> <<>>,
     peer_key |-> <<>>, peer_hashed |-> <<>>, seed_after |-> <<>>]

ThCalled(key, output_length, given, seed) ==
    [ThIdle EXCEPT !.pc = "called", !.key = key,
                   !.output_length = output_length,
                   !.given = given, !.seed_arg = seed]

\* toeplitz_hash(key, output_length, seed): return hashed_key, seed
ToeplitzHash(drawn) ==
    /\ th.pc = "called"
    /\ UNCHANGED nonThVars
    /\ drawn \in Seeds(Len(th.key), th.output_length)
    /\ LET seed == SeedUsed(th.seed_arg, th.given, drawn)
       IN  th' = [th EXCEPT
                    !.pc = "returned",
                    !.seed = seed,
                    !.hashed_key = ToeplitzBits(th.key, th.output_length, seed),
                    !.returned_seed = seed,
                    !.key_after = th.key]

\* the peer: toeplitz_hash(peer_key, output_length, seed=returned_seed)
ToeplitzHashPeer(peer_key, drawn) ==
    /\ th.pc = "returned"
    /\ UNCHANGED nonThVars
    /\ Len(peer_key) = Len(th.key)
    /\ drawn \in Seeds(Len(peer_key), th.output_length)
    /\ LET seed == SeedUsed(th.returned_seed, TRUE, drawn)
       IN  th' = [th EXCEPT
                    !.pc = "both",
                    !.peer_key = peer_key,
                    !.peer_hashed = ToeplitzBits(peer_key, th.output_length, seed),
                    !.seed_after = th.returned_seed]

InitThIdle == th = ThIdle

HashKeys == UNION {[1..n -> Bits] : n \in 0..MaxHashKey}
HashSeeds == UNION {[1..k -> Bits] : k \in 0..(MaxHashKey + MaxOut - 1)}

NextToeplitz ==
    \/ \E drawn \in HashSeeds : ToeplitzHash(drawn)
    \/ \E peer_key \in HashKeys : \E drawn \in HashSeeds :
          ToeplitzHashPeer(peer_key, drawn)

(***************************************************************************)
(* run_alice_server and run_bob_client up to the estimation: each process  *)
(* sifts the same file, seeds its own generator and calls                  *)
(* parameter_estimation.  A generator is its seed and the number of draws  *)
(* made since; draw[g] is what np.random.choice returns as the first draw  *)
(* of a generator seeded with g.                                           *)
(***************************************************************************)
Parties == {"alice", "bob"}

\* the generator of a process that has not called np.random.seed
Unseeded(party) == IF party = "alice" THEN "os_alice" ELSE "os_bob"

GenSeeds == {"os_alice", "os_bob", "seed_42"}

\* np.random.seed(42), left out
RandomSeedSkipped(party) == Unseeded(party)

\* np.random.seed(42)
RandomSeed(party) == "seed_42"

DepIdle ==
    [pc |-> [p \in Parties |-> "idle"], alice_bits |-> <<>>, bob_bits |-> <<>>,
     draw |-> [g \in GenSeeds |-> {}],
     gen |-> [p \in Parties |-> [seed |-> Unseeded(p), draws |-> 0]],
     sifted |-> [p \in Parties |-> <<>>],
     sample_idx |-> [p \in Parties |-> {}],
     a_key |-> [p \in Parties |-> <<>>],
     b_key |-> [p \in Parties |-> <<>>]]

DepStart(a, b, draw) ==
    [DepIdle EXCEPT !.pc = [p \in Parties |-> "start"], !.alice_bits = a,
                    !.bob_bits = b, !.draw = draw]

\* alice_bits, bob_bits = sifting_chunked(data_file, chunk_size)
SiftingChunked(party) ==
    /\ dep.pc[party] = "start"
    /\ UNCHANGED nonDepVars
    /\ dep' = [dep EXCEPT !.pc[party] = "sifted",
                          !.sifted[party] = <<dep.alice_bits, dep.bob_bits>>]

SeedGenerator(party) ==
    /\ dep.pc[party] = "sifted"
    /\ UNCHANGED nonDepVars
    /\ dep' = [dep EXCEPT !.pc[party] = "seeded",
                          !.gen[party] = [seed |-> RandomSeed(party),
                                          draws |-> 0]]

\* parameter_estimation(alice_bits, bob_bits) with the default sample_ratio
DeployedEstimation(party) ==
    /\ dep.pc[party] = "seeded"
    /\ UNCHANGED nonDepVars
    /\ dep.gen[party].draws = 0
    /\ LET idx == dep.draw[dep.gen[party].seed]
       IN  dep' = [dep EXCEPT
                     !.pc[party] = "estimated",
                     !.gen[party].draws = 1,
                     !.sample_idx[party] = idx,
                     !.a_key[party] = Masked(dep.sifted[party][1], idx, 0),
                     !.b_key[party] = Masked(dep.sifted[party][2], idx, 0)]

InitDeployment == dep = DepIdle

DepLens == {DepLen - 1, DepLen}

DepInputs ==
    \E N \in DepLens :
        \E b \in {[i \in 1..N |-> i % 2], [i \in 1..N |-> 0]} :
            \E draw \in [GenSeeds ->
                           Samples(N, SampleSizeOf(N, <<1, SampleRatioInverse>>))] :
                dep = DepStart([i \in 1..N |-> i % 2], b, draw)

NextDeployment ==
    \E party \in Parties :
        \/ SiftingChunked(party)
        \/ SeedGenerator(party)
        \/ DeployedEstimation(party)

(***************************************************************************)
(* Specifications                                                          *)
(***************************************************************************)
ChanInitCommon ==
    /\ alice_key \in [1..KeyLen -> Bits]
    /\ bits_leaked = [c \in Clients |-> 0]
    /\ total_parities_sent = 0
    /\ rpc = [c \in Clients |-> NoRpc]
    /\ last = [c \in Clients |-> NoCall]
    /\ phase = [c \in Clients |-> "new"]
    /\ queries = [c \in Clients |-> 0]
    /\ session_blocks = [c \in Clients |-> 0]

\* one corrector with a channel of either class
InitChannel ==
    /\ ChanInitCommon
    /\ InitCascade
    /\ InitPipeIdle
    /\ InitMirror
    /\ InitBisect
    /\ InitIteration
    /\ InitDeployment
    /\ InitPeIdle
    /\ InitThIdle
    /\ impl \in [Clients -> {"simple", "grpc"}]
    /\ impl[2] = "grpc"

NextChannel ==
    \/ SimpleStartReconciliation(1)
    \/ \E blocks \in Requests : SimpleAskParities(1, blocks)
    \/ SimpleEndReconciliation(1)
    \/ \E kind \in {"start", "end"} : GrpcCall(1, kind, <<>>)
    \/ \E blocks \in Requests : GrpcCall(1, "ask", blocks)
    \/ \E kind \in {"start", "end"} : GrpcUnavailable(1, kind, <<>>)
    \/ \E blocks \in Requests : GrpcUnavailable(1, "ask", blocks)
    \/ StartReconciliation(1)
    \/ AskParitiesBlock(1)
    \/ AskParitiesStore(1)
    \/ AskParitiesReturn(1)
    \/ EndReconciliation(1)

SpecChannel == InitChannel /\ [][NextChannel]_vars

\* two remote correctors served by the worker pool
InitServer ==
    /\ ChanInitCommon
    /\ InitCascade
    /\ InitPipeIdle
    /\ InitMirror
    /\ InitBisect
    /\ InitIteration
    /\ InitDeployment
    /\ InitPeIdle
    /\ InitThIdle
    /\ impl = [c \in Clients |-> "grpc"]

NextServer ==
    \E c \in Clients :
        \/ \E kind \in {"start", "end"} : GrpcCall(c, kind, <<>>)
        \/ \E blocks \in ServerRequests : GrpcCall(c, "ask", blocks)
        \/ StartReconciliation(c)
        \/ AskParitiesBlock(c)
        \/ AskParitiesStore(c)
        \/ AskParitiesReturn(c)
        \/ EndReconciliation(c)

SpecServer == InitServer /\ [][NextServer]_vars

\* runs of cascade_error_protocol
InitCascadeSpec ==
    /\ ChanInitCommon
    /\ alice_key = [i \in 1..KeyLen |-> 0]
    /\ impl = [c \in Clients |-> "simple"]
    /\ InitCascade
    /\ InitPipeIdle
    /\ InitMirror
    /\ InitBisect
    /\ InitIteration
    /\ InitDeployment
    /\ InitPeIdle
    /\ InitThIdle

SpecCascade == InitCascadeSpec /\ [][NextCascade]_vars

\* one run of a driver
InitPipeline ==
    /\ ChanInitCommon
    /\ alice_key = [i \in 1..KeyLen |-> 0]
    /\ impl = [c \in Clients |-> "simple"]
    /\ InitCascade
    /\ pipe \in {PipeStart(d) : d \in Drivers}
    /\ InitMirror
    /\ InitBisect
    /\ InitIteration
    /\ InitDeployment
    /\ InitPeIdle
    /\ InitThIdle

SpecPipeline == InitPipeline /\ [][NextPipeline]_vars

\* the two channel classes side by side
InitBoth ==
    /\ ChanInitCommon
    /\ InitCascade
    /\ InitPipeIdle
    /\ InitMirror
    /\ InitBisect
    /\ InitIteration
    /\ InitDeployment
    /\ InitPeIdle
    /\ InitThIdle
    /\ impl = [c \in Clients |-> IF c = 1 THEN "simple" ELSE "grpc"]

SpecMirror == InitBoth /\ [][NextMirror]_vars

\* calls of parameter_estimation
InitEstimation ==
    /\ ChanInitCommon
    /\ alice_key = [i \in 1..KeyLen |-> 0]
    /\ impl = [c \in Clients |-> "simple"]
    /\ InitCascade
    /\ InitPipeIdle
    /\ InitMirror
    /\ InitBisect
    /\ InitIteration
    /\ InitDeployment
    /\ pe \in {PeCalled(module, a, b, ratio) :
                 module \in Modules,
                 a \in UNION {[1..N -> Bits] : N \in 0..MaxSifted},
                 b \in UNION {[1..N -> Bits] : N \in 0..MaxSifted},
                 ratio \in Ratios}
    /\ Len(pe.alice_bits) = Len(pe.bob_bits)
    /\ InitThIdle

SpecEstimation == InitEstimation /\ [][NextEstimation]_vars

\* calls of toeplitz_hash
InitToeplitz ==
    /\ ChanInitCommon
    /\ alice_key = [i \in 1..KeyLen |-> 0]
    /\ impl = [c \in Clients |-> "simple"]
    /\ InitCascade
    /\ InitPipeIdle
    /\ InitMirror
    /\ InitBisect
    /\ InitIteration
    /\ InitDeployment
    /\ InitPeIdle
    /\ th \in {ThCalled(key, m, FALSE, <<>>) :
                 key \in HashKeys, m \in 0..MaxOut}
              \cup {ThCalled(key, m, TRUE, seed) :
                      key \in HashKeys, m \in 0..MaxOut, seed \in HashSeeds}
    /\ Len(th.key) + th.output_length >= 1
    /\ th.given => th.seed_arg \in Seeds(Len(th.key), th.output_length)

SpecToeplitz == InitToeplitz /\ [][NextToeplitz]_vars

\* calls of binary_search_error, of cascade_iteration and of
\* cascade_error_protocol
InitCascadeCalls ==
    /\ ChanInitCommon
    /\ alice_key = [i \in 1..KeyLen |-> 0]
    /\ impl = [c \in Clients |-> "simple"]
    /\ InitCascade
    /\ InitPipeIdle
    /\ InitMirror
    /\ InitPeIdle
    /\ InitThIdle
    /\ InitDeployment
    /\ \/ /\ BsInputs
          /\ InitIteration
       \/ /\ InitBisect
          /\ IterInputs
       \/ /\ InitBisect
          /\ InitIteration

SpecCascadeCalls == InitCascadeCalls /\ [][NextCascadeCalls]_vars

\* the server process and the client process of the deployment
InitDeployed ==
    /\ ChanInitCommon
    /\ alice_key = [i \in 1..KeyLen |-> 0]
    /\ impl = [c \in Clients |-> "simple"]
    /\ InitCascade
    /\ InitPipeIdle
    /\ InitMirror
    /\ InitPeIdle
    /\ InitThIdle
    /\ InitBisect
    /\ InitIteration
    /\ DepInputs

SpecDeployment == InitDeployed /\ [][NextDeployment]_vars

(***************************************************************************)
(* Claims about the Classical Channel                                      *)
(***************************************************************************)
\* C1: bits_leaked never decreases, every ask_parities call that returns has
\* grown it by exactly the number of blocks of the request, and it equals
\* the number of parity queries made so far (SimpleClassicalChannel, and
\* gRPCClassicalChannel with a reachable peer).
C1_LeakageCountsQueries ==
    \A c \in Clients :
        /\ last[c].delta >= 0
        /\ (last[c].op = "ask" /\ last[c].outcome = "ok" /\ ~last[c].transport)
              => last[c].delta = last[c].nblocks
        /\ bits_leaked[c] = queries[c]

\* a second request, of two blocks, answered by the remote peer
C1_Witness ==
    /\ impl[1] = "grpc"
    /\ last[1].op = "ask" /\ last[1].outcome = "ok"
    /\ last[1].nblocks = 2
    /\ bits_leaked[1] = 3

\* C3: at EndReconciliation the server's count for a session is the number
\* of blocks that session asked since its own StartReconciliation, whatever
\* the other session did meanwhile.
C3_SessionScopedCount ==
    \A c \in Clients :
        (last[c].op = "end" /\ last[c].phase_before = "started")
            => last[c].reported = session_blocks[c]

\* C7: a request with a malformed block fails and leaves the leakage
\* counter unchanged, on the in-process channel and on the server.
C7_MalformedLeavesLedger ==
    \A c \in Clients :
        (last[c].op = "ask" /\ last[c].malformed /\ ~last[c].transport)
            => /\ last[c].outcome # "ok"
               /\ last[c].delta = 0
               /\ last[c].srv_delta = 0

\* C8: a remote call that hits a transport failure ends in an error for
\* its caller, and leaves bits_leaked as it was.
C8_TransportFailureSurfaces ==
    \A c \in Clients :
        last[c].transport => (last[c].outcome = "RpcError" /\ last[c].delta = 0)

\* C9: after start the leakage counter of the channel is 0, and so is the
\* server's total_parities_sent after StartReconciliation.
C9_StartResetsCounter ==
    \A c \in Clients :
        (last[c].op = "start" /\ last[c].outcome = "ok")
            => /\ bits_leaked[c] = 0
               /\ impl[c] = "grpc" => total_parities_sent = 0

\* C10: an ask_parities made after end and before a new start is rejected:
\* no parities come back and the leakage counter does not change.
C10_AskAfterEndRejected ==
    \A c \in Clients :
        (last[c].op = "ask" /\ last[c].phase_before = "ended")
            => /\ last[c].outcome # "ok"
               /\ last[c].parities = <<>>
               /\ last[c].delta = 0

(***************************************************************************)
(* Claims about qkd/cascade.py                                             *)
(***************************************************************************)
\* C2: the leaked-bit count of cascade_error_protocol (and of each pass) is
\* the number of parities of the verifier's key that were compared, those
\* compared inside binary_search_error included.
C2_LeakedCountsBisection == casc.total_leaked_bits = casc.comparisons

(***************************************************************************)
(* Claims about the pipeline drivers                                       *)
(***************************************************************************)
\* C4: once parameter estimation has returned a qber_high above 0.11, the
\* batch or session makes no channel call: no reconciliation is started and
\* the leakage counter stays 0.
C4_QberGateBeforeChannel ==
    (pipe.pc \notin {"idle", "sift", "estimate", "gate"}
        /\ pipe.qber_high > QBER_THRESHOLD)
        => (pipe.channel_calls = 0 /\ pipe.ledger = 0)

\* C5: toeplitz_hash is not called in a batch or session whose
\* reconciliation left errors.
C5_NoHashWithResidualErrors ==
    pipe.hash_calls > 0 => pipe.final_errors = 0

\* batches that end on their residual errors with nothing hashed, in the
\* streaming driver and in one that returns early
C5_Witness ==
    /\ pipe.outcome = "ResidualErrors"
    /\ pipe.final_errors > 0
    /\ pipe.final_len > 0
    /\ pipe.hash_calls = 0
    /\ pipe.driver = "stream"

\* the final length is stated for the states that follow its computation
LengthComputed ==
    \/ pipe.pc = "amplify"
    \/ pipe.outcome \in {"Key", "NoKey"}

\* floor((a - n * h) / EntropyScale), then max(0, .)
FloorLength(n, L, h) ==
    Max(0, (EntropyScale * (n - L - safety_margin) - n * h) \div EntropyScale)

C11_ChannelsEquivalent ==
    Synced =>
        /\ last[1].op = last[2].op
        /\ last[1].outcome = last[2].outcome
        /\ last[1].parities = last[2].parities
        /\ Len(last[2].parities) = Len(mirror.blocks)
        /\ \A i \in 1..Len(last[2].parities) :
              last[2].parities[i] =
                  CalculateParity(alice_key, mirror.blocks[i].shuffle,
                                  mirror.blocks[i].start_index,
                                  mirror.blocks[i].end_index)
        /\ bits_leaked[1] = bits_leaked[2]

\* a second request, of two blocks of the shuffle 12 with different
\* parities, answered on both channels
C11_Witness ==
    /\ Synced
    /\ last[2].op = "ask" /\ last[2].outcome = "ok"
    /\ mirror.blocks[1].shuffle = 12
    /\ last[2].parities = <<1, 0>>
    /\ bits_leaked[2] = 3

(***************************************************************************)
(* Claims about parameter_estimation                                       *)
(***************************************************************************)
\* the k-th (from 1) index of the key that is not in the sample
KeptIndex(k) ==
    CHOOSE i \in (0..(Len(pe.alice_bits) - 1)) \ pe.sample_idx :
        Cardinality({j \in (0..(i - 1)) \ pe.sample_idx : TRUE}) = k - 1

\* C12: the sample holds floor(N * r) distinct indices, the returned keys
\* hold the entries at the other indices, in their order, the same indices
\* for both keys, and their length is N - sample_size.
C12_SampleExcluded ==
    pe.pc = "returned" =>
        LET N == Len(pe.alice_bits)
        IN  /\ pe.sample_size * pe.ratio[2] <= N * pe.ratio[1]
            /\ N * pe.ratio[1] < (pe.sample_size + 1) * pe.ratio[2]
            /\ Cardinality(pe.sample_idx) = pe.sample_size
            /\ pe.sample_idx \subseteq 0..(N - 1)
            /\ Len(pe.a_key) = N - pe.sample_size
            /\ Len(pe.b_key) = N - pe.sample_size
            /\ \A k \in 1..(N - pe.sample_size) :
                  /\ pe.a_key[k] = pe.alice_bits[KeptIndex(k) + 1]
                  /\ pe.b_key[k] = pe.bob_bits[KeptIndex(k) + 1]

\* the middle index of a key of three is sampled; the ends, which differ,
\* are kept
C12_Witness ==
    /\ pe.pc = "returned" /\ pe.module = "qkd"
    /\ pe.alice_bits = <<1, 0, 0>>
    /\ pe.sample_idx = {1}
    /\ pe.a_key = <<1, 0>>

\* C13: with a sample size of 0, parameter_estimation returns qber = 0,
\* the interval (0, 0) and the keys as they were passed in.
C13_EmptySample ==
    (pe.pc = "returned" /\ pe.sample_size = 0) =>
        /\ ~pe.qber_nan
        /\ pe.qber = 0
        /\ pe.qber_low = 0 /\ pe.qber_high = 0
        /\ pe.a_key = pe.alice_bits
        /\ pe.b_key = pe.bob_bits

\* C14: the estimate of qkd/parameter_estimation.py satisfies
\* 0 <= lower <= point <= upper <= 1, whatever the sample size and the
\* number of mismatches in the sample.
C14_EstimateOrdered ==
    (pe.pc = "returned" /\ pe.module = "qkd") =>
        /\ ~pe.qber_nan
        /\ 0 <= pe.qber_low
        /\ pe.qber_low <= pe.qber
        /\ pe.qber <= pe.qber_high
        /\ pe.qber_high <= Milli

\* C15: after parameter_estimation has returned, the two sequences passed
\* in have the length and the contents they had before the call.
C15_InputsUnchanged ==
    pe.pc = "returned" =>
        /\ pe.alice_after = pe.alice_bits
        /\ pe.bob_after = pe.bob_bits

(***************************************************************************)
(* Claims about toeplitz_hash                                              *)
(***************************************************************************)
\* C16: toeplitz_hash returns output_length bits, bit i (from 0) being the
\* number, modulo 2, of the positions j where the key and seed[i + j] are
\* both 1; without a seed argument it draws a seed of length
\* n + output_length - 1, and it returns the seed it used.
C16_ToeplitzBits ==
    th.pc \in {"returned", "both"} =>
        LET n == Len(th.key)
        IN  /\ Len(th.hashed_key) = th.output_length
            /\ \A i \in 0..(th.output_length - 1) :
                  th.hashed_key[i + 1] =
                      Cardinality({j \in 1..n : th.key[j] = 1
                                                /\ th.returned_seed[i + j] = 1}) % 2
            /\ Len(th.returned_seed) = n + th.output_length - 1
            /\ th.given => th.returned_seed = th.seed_arg

\* two output bits that differ, from a drawn seed
C16_Witness ==
    /\ th.pc = "returned" /\ ~th.given
    /\ th.key = <<1, 1>>
    /\ th.returned_seed = <<1, 0, 0>>
    /\ th.hashed_key = <<1, 0>>

\* C17: the peer's call with an equal key, the same length and the seed the
\* first call returned gives the same bits as the first call, and the key
\* and the seed are after the calls what they were before.
C17_ToeplitzDeterministic ==
    th.pc = "both" =>
        /\ th.peer_key = th.key => th.peer_hashed = th.hashed_key
        /\ th.key_after = th.key
        /\ th.seed_after = th.returned_seed
        /\ th.given => th.returned_seed = th.seed_arg

\* both parties hold <<0, 1>>-bits from the key <<1, 1>> and a drawn seed
C17_Witness ==
    /\ th.pc = "both" /\ ~th.given
    /\ th.key = <<1, 1>> /\ th.peer_key = <<1, 1>>
    /\ th.hashed_key = <<0, 1>>
    /\ th.peer_hashed = <<0, 1>>

(***************************************************************************)
(* Claims about the batches of the streaming driver                        *)
(***************************************************************************)
\* C18: in process_large_file the leaked-bit count of a batch, and the one
\* its final length is computed from, is the number of parities asked in
\* that batch, whatever the batches before it leaked.
C18_BatchLedgerIndependent ==
    pipe.driver = "stream" =>
        /\ pipe.pc \in {"errors", "length", "amplify"}
              => (pipe.ledger = pipe.asked /\ pipe.leaked_bits = pipe.asked)
        /\ pipe.pc = "amplify"
              => pipe.final_len = FloorLength(pipe.n, pipe.asked,
                                              BinaryEntropy(pipe.qber_high))

\* the second batch asks one parity after a first batch that asked more
\* and gave a key
C18_Witness ==
    /\ pipe.driver = "stream" /\ pipe.batch_number = 2
    /\ pipe.pc = "amplify"
    /\ pipe.asked = 1 /\ pipe.leaked_bits = 1
    /\ pipe.total_final_keys = 128

\* C19: a final length of 0 stops the batch or session before hashing:
\* toeplitz_hash is not called, no key comes out and nothing is added to
\* total_final_keys.
C19_NoHashOnZeroLength ==
    /\ pipe.final_len = 0 =>
          (pipe.hash_calls = 0 /\ pipe.total_final_keys = pipe.total_before)
    /\ pipe.outcome = "Key" => pipe.final_len > 0

\* a second batch without errors whose length computes to 0, after a first
\* one that gave a key
C19_Witness ==
    /\ pipe.driver = "stream" /\ pipe.batch_number = 2
    /\ pipe.outcome = "NoKey"
    /\ pipe.final_errors = 0 /\ pipe.n > 0
    /\ pipe.final_len = 0 /\ pipe.hash_calls = 0
    /\ pipe.total_final_keys > 0

\* the positions of the driver inside a batch
BatchPcs == {"sift", "estimate", "gate", "reconcile", "errors", "length", "amplify"}

\* C20: in process_large_file every batch, completed or aborted, ends with
\* raw_buffer empty and the driver back at the chunk loop, and every row
\* read has been handed to one batch or waits in raw_buffer.
C20_BatchEndsRecoverable ==
    /\ [](pipe.driver = "stream" =>
            pipe.rows_sifted + (IF pipe.pc \in BatchPcs THEN 0 ELSE pipe.raw_buffer)
                = pipe.total_raw_bits)
    /\ [][(pipe.driver = "stream" /\ pipe.pc \in BatchPcs
              /\ pipe'.pc \notin BatchPcs)
            => (pipe'.raw_buffer = 0 /\ pipe'.pc = "read")]_vars

\* a second batch begins after a first one that was aborted for its QBER
C20_Witness ==
    /\ pipe.driver = "stream" /\ pipe.batch_number = 2
    /\ pipe.pc = "sift"
    /\ pipe.outcome = "QberTooHigh"
    /\ pipe.raw_buffer = CHUNK_SIZE
    /\ pipe.rows_sifted = 2 * CHUNK_SIZE


(***************************************************************************)
(* Claims about binary_search_error and cascade_iteration                  *)
(***************************************************************************)
PowerOfTwo(L) == \E k \in 0..L : 2 ^ k = L

\* the 1-based positions where two sequences of equal length differ
DiffPositions(a, b) == {i \in 1..Len(a) : a[i] # b[i]}

\* C21: for two blocks of equal length, a power of two, that differ in
\* exactly one position p, binary_search_error returns start_index + p, and
\* flipping the corrector's bit there makes the two block parities agree.
C21_SingleErrorLocated ==
    (/\ bs.pc = "returned"
     /\ PowerOfTwo(Len(bs.alice_block))
     /\ Cardinality(DiffPositions(bs.alice_block, bs.bob_block)) = 1)
    => \A p \in DiffPositions(bs.alice_block, bs.bob_block) :
          /\ bs.result = bs.start_index + (p - 1)
          /\ Parity(Flip(bs.bob_block, bs.result - bs.start_index))
               = Parity(bs.alice_block)

C21_Witness ==
    /\ bs.pc = "returned"
    /\ Len(bs.alice_block) = 4
    /\ DiffPositions(bs.alice_block, bs.bob_block) = {3}
    /\ bs.start_index = 0
    /\ bs.result = 2

\* C27 (as amended): binary_search_error returns for every pair of blocks of
\* equal length L >= 1, whatever the errors; the index returned is in
\* [start_index, start_index + L); the calls nest at most ceil(log2(L)) deep.
C27_SearchTerminatesInBlock ==
    /\ bs.pc = "called" => ENABLED BinarySearchErrorReturn
    /\ bs.pc = "returned" =>
          /\ bs.start_index <= bs.result
          /\ bs.result < bs.start_index + Len(bs.alice_block)
          /\ bs.depth = 0 \/ 2 ^ (bs.depth - 1) < Len(bs.alice_block)

C27_Witness ==
    /\ bs.pc = "returned"
    /\ Len(bs.alice_block) = 3
    /\ bs.alice_block = bs.bob_block
    /\ bs.depth = 2
    /\ bs.result = bs.start_index + 2

\* C27 as stated: the calls nest at most log2(N) deep, N the length of the
\* key the blocks are taken from.
C27_DepthWithinLog2N ==
    bs.pc = "returned" =>
        /\ bs.start_index <= bs.result
        /\ bs.result < bs.start_index + Len(bs.alice_block)
        /\ 2 ^ bs.depth <= bs.key_len


\* the length of the k-th slice taken by the pass of cascade_iteration
BlockLen(k) == iter.blocks[k][2] - iter.blocks[k][1]

\* C24: cascade_iteration cuts the positions [0, N) of the (permuted) key
\* into contiguous blocks of block_size positions, without gap or overlap;
\* only the last block may be shorter; a block is skipped exactly when it
\* has fewer than 2 elements, and the pass reveals one parity for every
\* block of length at least 2.
C24_BlocksPartitionKey ==
    iter.pc = "returned" =>
        /\ Len(iter.blocks) >= 1
        /\ iter.blocks[1][1] = 0
        /\ iter.blocks[Len(iter.blocks)][2] = Len(iter.alice_key)
        /\ \A k \in 1..(Len(iter.blocks) - 1) :
              /\ iter.blocks[k][2] = iter.blocks[k + 1][1]
              /\ BlockLen(k) = iter.block_size
        /\ BlockLen(Len(iter.blocks)) >= 1
        /\ BlockLen(Len(iter.blocks)) <= iter.block_size
        /\ iter.leaked_bits
             = Cardinality({k \in 1..Len(iter.blocks) : BlockLen(k) >= 2})

C24_Witness ==
    /\ iter.pc = "returned"
    /\ Len(iter.alice_key) = 3
    /\ iter.block_size = 2
    /\ iter.blocks = <<<<0, 2>>, <<2, 3>>>>
    /\ iter.leaked_bits = 1

\* whether the two parties' parities of the k-th block differ
BlockMismatch(k) ==
    Parity(SubSeq(iter.alice_permuted, iter.blocks[k][1] + 1, iter.blocks[k][2]))
      # Parity(SubSeq(iter.bob_permuted, iter.blocks[k][1] + 1, iter.blocks[k][2]))

\* the positions of the k-th block that the pass has flipped
BlockFlips(k) ==
    {i \in (iter.blocks[k][1] + 1)..iter.blocks[k][2] :
        iter.corrected_bob_permuted[i] # iter.bob_permuted[i]}

\* C25 (as amended): in one pass every block of length at least 2 whose two
\* parities differ has exactly one bit flipped, every other block is left
\* as it was, and corrected_errors is the number of blocks of length at
\* least 2 whose parities differ.
C25_OneFlipPerMismatch ==
    iter.pc = "returned" =>
        /\ \A k \in 1..Len(iter.blocks) :
              Cardinality(BlockFlips(k))
                = IF BlockMismatch(k) /\ BlockLen(k) >= 2 THEN 1 ELSE 0
        /\ iter.corrected_errors
             = Cardinality({k \in 1..Len(iter.blocks) :
                              BlockMismatch(k) /\ BlockLen(k) >= 2})

C25_Witness ==
    /\ iter.pc = "returned"
    /\ Len(iter.alice_key) = 3
    /\ iter.block_size = 2
    /\ BlockMismatch(1) /\ BlockMismatch(2)
    /\ iter.corrected_errors = 1

\* C25 as stated: every block whose two parities differ has exactly one bit
\* flipped, every block whose parities agree is left as it was, and
\* corrected_errors is the number of blocks whose parities differ.
C25_EveryMismatchFlipped ==
    iter.pc = "returned" =>
        /\ \A k \in 1..Len(iter.blocks) :
              Cardinality(BlockFlips(k)) = IF BlockMismatch(k) THEN 1 ELSE 0
        /\ iter.corrected_errors
             = Cardinality({k \in 1..Len(iter.blocks) : BlockMismatch(k)})

\* C28: every flip of cascade_iteration lands on a position where the
\* corrector's key differed from the verifier's, with no permutation and
\* with any; after a pass the Hamming distance is the distance before less
\* corrected_errors; over cascade_error_protocol the residual count never
\* increases and final_errors is the initial count less total_errors.
C28_FlipsLandOnErrors ==
    /\ [](/\ iter.pc = "returned" =>
               /\ DiffPositions(iter.bob_key, iter.corrected_bob)
                    \subseteq DiffPositions(iter.alice_key, iter.bob_key)
               /\ Cardinality(DiffPositions(iter.bob_key, iter.corrected_bob))
                    = iter.corrected_errors
               /\ Hamming(iter.alice_key, iter.corrected_bob)
                    = Hamming(iter.alice_key, iter.bob_key) - iter.corrected_errors
          /\ casc.pc \in {"loop", "returned"} =>
               /\ casc.final_errors = Hamming(casc.alice_key, casc.corrected_bob)
               /\ casc.final_errors = casc.initial_errors - casc.total_errors)
    /\ [][casc.pc = "loop" => casc'.final_errors <= casc.final_errors]_vars

C28_Witness ==
    /\ iter.pc = "returned"
    /\ iter.permutation = <<2, 0, 3, 1>>
    /\ iter.block_size = 2
    /\ iter.corrected_errors = 2
    /\ Hamming(iter.alice_key, iter.bob_key) = 2
    /\ iter.corrected_bob = iter.alice_key

\* C29: binary_search_error, cascade_iteration and cascade_error_protocol
\* leave the verifier's key, the corrector's input key and the permutation
\* as they were; the corrections are only in the corrected key returned,
\* which is as long as the input.
C29_InputsLeftAlone ==
    /\ bs.pc = "returned" =>
          /\ bs.alice_after = bs.alice_block
          /\ bs.bob_after = bs.bob_block
    /\ iter.pc = "returned" =>
          /\ iter.alice_after = iter.alice_key
          /\ iter.bob_after = iter.bob_key
          /\ iter.permutation_after = iter.permutation
          /\ Len(iter.corrected_bob) = Len(iter.bob_key)
    /\ casc.pc \in {"loop", "returned"} =>
          /\ casc.bob_after = casc.bob_key
          /\ Len(casc.corrected_bob) = Len(casc.bob_key)

C29_Witness ==
    /\ iter.pc = "returned"
    /\ iter.permutation = <<>>
    /\ iter.corrected_errors = 1
    /\ iter.corrected_bob # iter.bob_key
    /\ iter.bob_after = iter.bob_key

(***************************************************************************)
(* Claims about cascade_error_protocol                                     *)
(***************************************************************************)
\* C22: cascade_error_protocol runs the passes 0, 1, 2, ... in order; it
\* stops after the first pass that ends with no residual error, and else
\* runs the configured number of passes and returns; it never runs more
\* passes than the budget, nor a pass after one that ended with no residual
\* error.
C22_PassesStopAtZeroOrBudget ==
    /\ [](/\ casc.passes <= casc.iterations
          /\ casc.pc = "loop" => casc.it = casc.passes
          /\ casc.pc = "returned" =>
               IF casc.passes < casc.iterations
               THEN casc.final_errors = 0 /\ casc.passes >= 1
               ELSE casc.passes = casc.iterations)
    /\ [][casc'.passes # casc.passes =>
            /\ casc'.passes = casc.passes + 1
            /\ casc.passes >= 1 => casc.final_errors # 0]_vars

C22_Witness ==
    /\ casc.pc = "returned"
    /\ casc.iterations = 2
    /\ casc.passes = 1
    /\ casc.initial_errors = 1
    /\ casc.final_errors = 0

\* the quotient a / b rounded to the nearest integer
RoundDiv(a, b) == (2 * a + b) \div (2 * b)

\* C23: the block size of pass k is min(N, base_block_size * 2^k), with
\* base_block_size = max(4, round(0.73 / max(estimated_qber, epsilon))), the
\* quotient rounded to the nearest integer, for every QBER in [0, 1].
C23_BlockSizeRounded ==
    casc.pc \in {"loop", "returned"} =>
        casc.base_block_size
          = Max(4, IF casc.qber[1] * 100000 <= casc.qber[2] THEN 73000
                   ELSE RoundDiv(73 * casc.qber[2], 100 * casc.qber[1]))


(***************************************************************************)
(* Claims about the batch trigger and the two-process deployment           *)
(***************************************************************************)
\* C26: the streaming controller triggers a batch when the sifted bit pairs
\* it has accumulated reach 50,000, so every batch handed to the parameter
\* estimation holds at least 50,000 sifted bits.
C26_BatchHoldsThresholdSifted ==
    (pipe.driver = "stream" /\ pipe.pc = "gate") => pipe.N >= BATCH_SIZE_THRESHOLD

\* C30: the verifier server and the corrector client, each calling
\* parameter_estimation on the same sifted input after seeding its generator
\* with the same value, take out the same sample indices, so that the keys
\* they keep are equally long and index-aligned.
C30_SameSampleBothSides ==
    (dep.pc["alice"] = "estimated" /\ dep.pc["bob"] = "estimated") =>
        /\ dep.sample_idx["alice"] = dep.sample_idx["bob"]
        /\ Len(dep.a_key["alice"]) = Len(dep.b_key["bob"])
        /\ dep.b_key["bob"] = Masked(dep.bob_bits, dep.sample_idx["alice"], 0)
        /\ dep.a_key["alice"] = Masked(dep.alice_bits, dep.sample_idx["bob"], 0)

C30_Witness ==
    /\ dep.pc["alice"] = "estimated" /\ dep.pc["bob"] = "estimated"
    /\ dep.draw["os_alice"] # dep.draw["os_bob"]
    /\ dep.draw["seed_42"] # dep.draw["os_bob"]
    /\ Cardinality(dep.sample_idx["bob"]) = 1
    /\ Len(dep.b_key["bob"]) = Len(dep.bob_bits) - 1

====
